---- MODULE Spec2Model ----
(***************************************************************************)
(* Model of src/lib.rs: the type-indexed store (InMemoryDb), the builder   *)
(* (ExecutionGraphBuilder) and the execution graph (ExecutionGraph).       *)
(*                                                                         *)
(* A TypeId is a string.  A panic ends the run: phase becomes "aborted"    *)
(* and the state keeps whatever the call had already written.              *)
(***************************************************************************)
EXTENDS Naturals, Sequences, FiniteSets

\* ------------------------------------------------------------------ bounds
\* values of a slot are 0 .. MaxVal
MaxVal == 1
\* direct put calls on the store before it is handed to the builder
MaxPuts == 2
\* add_input calls
MaxInputs == 2
\* successful add_task calls
MaxTasks == 2
\* execute calls
MaxExec == 2

Values == 0 .. MaxVal

\* ------------------------------------------------------- the program's types
\* Key identities (TypeId::of::<K>()).  "Unit" is (), "MyKey" the handle key
\* of the tests, "MyKey2" a second handle key for the same value type, the
\* others are domain types that key their own value.
TypeIds == {"Unit", "MyKey", "MyKey2", "A", "B", "C", "D", "E"}

\* DbKey::Value of a key: the handle keys store an i32, every other key its
\* own type.
ValueType(K) == IF K \in {"MyKey", "MyKey2"} THEN "i32" ELSE K

\* The values a key's value type has: () has one value.
ValuesOf(K) == IF K = "Unit" THEN {0} ELSE Values

\* Types implementing TaskInput, and TaskInput::dep_types of each.
InputTypes == {"Unit", "A", "B", "C", "D"}

\* The keys the caller seeds with add_input.
SeedKeys == {"A", "B", "D"}

dep_types(I) ==
  CASE I = "B" -> <<"B">>
    [] I = "C" -> <<"B", "A">>
    [] OTHER   -> <<>>

\* Types implementing TaskOutput, and TaskOutput::out_types of each.
OutputTypes == {"Unit", "B", "C", "D", "E"}

out_types(O) ==
  CASE O = "C" -> <<"D">>
    [] O = "D" -> <<"D">>
    [] O = "E" -> <<"D", "D">>
    [] OTHER   -> <<>>

\* Task types: an Input type, an Output type and the mapping's offset.
Tasks ==
  { [input |-> "A",    output |-> "B",    k |-> 0],
    [input |-> "B",    output |-> "C",    k |-> 1],
    [input |-> "C",    output |-> "C",    k |-> 1],
    [input |-> "D",    output |-> "C",    k |-> 0],
    [input |-> "A",    output |-> "E",    k |-> 1],
    [input |-> "A",    output |-> "D",    k |-> 0],
    [input |-> "C",    output |-> "D",    k |-> 0],
    [input |-> "Unit", output |-> "B",    k |-> 1],
    [input |-> "D",    output |-> "Unit", k |-> 0]
  }

NoTask == [input |-> "Unit", output |-> "Unit", k |-> 0]

\* ------------------------------------------------------------------- state
VARIABLES
  phase,      \* "db" | "building" | "built" | "aborted"
  data,       \* InMemoryDb.data: a set of entries [key, box]
  nodes,      \* ExecutionGraph.tasks: node weights, by node index
  edges,      \* ExecutionGraph.tasks: edges [src, dst, action]
  added,      \* the tasks whose add_task returned, in call order
  seeded,     \* the keys add_input was called for
  counts,     \* calls made so far: [puts, inputs, execs]
  written,    \* per key, the value of the latest put call made for it
  last        \* the last call: [op, task, key, arg, ret, result, ty]

vars == <<phase, data, nodes, edges, added, seeded, counts, written, last>>

\* Option<T>: None is <<>>, Some(v) is <<v>>.
None == <<>>
Some(v) == <<v>>

\* Box<dyn Any>: a value with the TypeId of its concrete type.
Box(ty, v) == [ty |-> ty, v |-> v]

\* -------------------------------------------------------------- InMemoryDb
\* HashMap::get
HashMapGet(m, k) ==
  IF \E e \in m : e.key = k
    THEN Some((CHOOSE e \in m : e.key = k).box)
    ELSE None

\* As HashMapInsert, keeping the old entry of the key.
HashMapInsert_Keep(m, k, b) == m \cup {[key |-> k, box |-> b]}

\* HashMap::insert: the new map (the old entry of k, if any, is replaced)
HashMapInsert(m, k, b) ==
  {e \in m : e.key # k} \cup {[key |-> k, box |-> b]}

\* Any::downcast_ref / Box::downcast to K::Value on an Option<Box<dyn Any>>
Downcast(opt, K) ==
  IF opt # None /\ opt[1].ty = ValueType(K) THEN Some(opt[1].v) ELSE None

\* As TypeIdOf, taking the identity of the value type stored under the key.
TypeIdOf_Value(K) == ValueType(K)

\* TypeId::of::<K>(): the map key of K's slot
TypeIdOf(K) == K

\* DataBase::get::<K>
DbGet(m, K) == Downcast(HashMapGet(m, TypeIdOf(K)), K)

\* DataBase::get_cloned::<K>
DbGetCloned(m, K) == DbGet(m, K)

\* As DbPut, tagging the box with the key's identity instead of the
\* identity of the value's type.
DbPut_BoxedAsKey(m, K, v) == HashMapInsert(m, TypeIdOf(K), Box(K, v))

\* DataBase::put::<K>: the store after the call
DbPut(m, K, v) == HashMapInsert(m, TypeIdOf(K), Box(ValueType(K), v))

\* DataBase::put::<K>: the value the call returns
DbPutRet(m, K) == Downcast(HashMapGet(m, TypeIdOf(K)), K)

\* ---------------------------------------------------------- ExecutionGraph
\* ExecutionGraph::contains_node: the first node index carrying ty
contains_node(n, ty) ==
  IF \E i \in 1 .. Len(n) : n[i] = ty
    THEN Some(CHOOSE i \in 1 .. Len(n) :
                n[i] = ty /\ \A j \in 1 .. (i - 1) : n[j] # ty)
    ELSE None

\* The edge action add_task attaches to a dependency edge of task T
\* (reload T::Input from the store and put it back), and the empty action
\* of an out_types edge.
InputAction(T) == [kind |-> "reload", input |-> T.input]
NoAction == [kind |-> "noop", input |-> "Unit"]

Edge(s, d, a) == [src |-> s, dst |-> d, action |-> a]

\* The result of a call that may panic.
Ok == "ok"
MissingDependency == "Missing dependency"
OutputExists == "Output already exists"
UnwrapNone == "unwrap on None"

\* As AddDepEdges, skipping a dependency no node carries instead of
\* panicking.
RECURSIVE AddDepEdges_NoPanic(_, _, _, _, _, _)
AddDepEdges_NoPanic(n, e, deps, i, task_input_node, T) ==
  IF i > Len(deps) THEN [edges |-> e, result |-> "ok", ty |-> "Unit"]
  ELSE LET found == contains_node(n, deps[i]) IN
       AddDepEdges_NoPanic(n,
         IF found = <<>> THEN e
         ELSE Append(e, Edge(found[1], task_input_node, InputAction(T))),
         deps, i + 1, task_input_node, T)

\* As AddDepEdges, with the edge drawn from the new Input node to the
\* dependency's node.
RECURSIVE AddDepEdges_Reversed(_, _, _, _, _, _)
AddDepEdges_Reversed(n, e, deps, i, task_input_node, T) ==
  IF i > Len(deps) THEN [edges |-> e, result |-> "ok", ty |-> "Unit"]
  ELSE LET found == contains_node(n, deps[i]) IN
       IF found = <<>>
         THEN [edges |-> e, result |-> "Missing dependency", ty |-> deps[i]]
         ELSE AddDepEdges_Reversed(n,
                Append(e, Edge(task_input_node, found[1], InputAction(T))),
                deps, i + 1, task_input_node, T)

\* add_task, the loop over T::Input::dep_types() from position i on:
\* the edges when the loop ends, or the panic and the edges added before it.
RECURSIVE AddDepEdges(_, _, _, _, _, _)
AddDepEdges(n, e, deps, i, task_input_node, T) ==
  IF i > Len(deps) THEN [edges |-> e, result |-> Ok, ty |-> "Unit"]
  ELSE LET found == contains_node(n, deps[i]) IN
       IF found = None
         THEN [edges |-> e, result |-> MissingDependency, ty |-> deps[i]]
         ELSE AddDepEdges(n,
                Append(e, Edge(found[1], task_input_node, InputAction(T))),
                deps, i + 1, task_input_node, T)

\* As AddOutNodes, without the check that the identity is no node yet.
RECURSIVE AddOutNodes_NoCheck(_, _, _, _, _)
AddOutNodes_NoCheck(n, e, outs, i, out_node) ==
  IF i > Len(outs) THEN [nodes |-> n, edges |-> e, result |-> "ok", ty |-> "Unit"]
  ELSE AddOutNodes_NoCheck(Append(n, outs[i]),
         Append(e, Edge(out_node, Len(n) + 1, NoAction)),
         outs, i + 1, out_node)

\* As AddOutNodes, looking an identity up only among the nodes that were
\* in the graph before the call (the task's Input and Output nodes are the
\* two nodes up to out_node).
RECURSIVE AddOutNodes_CheckOld(_, _, _, _, _)
AddOutNodes_CheckOld(n, e, outs, i, out_node) ==
  IF i > Len(outs) THEN [nodes |-> n, edges |-> e, result |-> "ok", ty |-> "Unit"]
  ELSE IF contains_node(SubSeq(n, 1, out_node - 2), outs[i]) # <<>>
         THEN [nodes |-> n, edges |-> e, result |-> "Output already exists",
               ty |-> outs[i]]
         ELSE AddOutNodes_CheckOld(Append(n, outs[i]),
                Append(e, Edge(out_node, Len(n) + 1, NoAction)),
                outs, i + 1, out_node)

\* add_task, the loop over T::Output::out_types() from position i on.
RECURSIVE AddOutNodes(_, _, _, _, _)
AddOutNodes(n, e, outs, i, out_node) ==
  IF i > Len(outs) THEN [nodes |-> n, edges |-> e, result |-> Ok, ty |-> "Unit"]
  ELSE IF contains_node(n, outs[i]) # None
         THEN [nodes |-> n, edges |-> e, result |-> OutputExists, ty |-> outs[i]]
         ELSE AddOutNodes(Append(n, outs[i]),
                Append(e, Edge(out_node, Len(n) + 1, NoAction)),
                outs, i + 1, out_node)

\* ExecutionGraphBuilder::add_task::<T> on the graph (n, e): the graph when
\* the call returns or panics, and which of the two it was.
AddTaskCall(n, e, T) ==
  LET n1 == Append(n, T.input)
      task_input_node == Len(n1)
      ds == AddDepEdges(n1, e, dep_types(T.input), 1, task_input_node, T)
  IN  IF ds.result # Ok
        THEN [nodes |-> n1, edges |-> ds.edges, result |-> ds.result, ty |-> ds.ty]
        ELSE LET n2 == Append(n1, T.output)
                 out_node == Len(n2)
             IN  AddOutNodes(n2, ds.edges, out_types(T.output), 1, out_node)

\* As MissingDeps, looking at the first dependency only.
MissingDeps_FirstOnly(n, T) ==
  {i \in 1 .. Len(dep_types(T.input)) :
     i = 1 /\ contains_node(n, dep_types(T.input)[i]) = <<>>}

\* execute, the loop over T::Input::dep_types(): the first dependency no
\* node carries, if any.
MissingDeps(n, T) ==
  {i \in 1 .. Len(dep_types(T.input)) :
     contains_node(n, dep_types(T.input)[i]) = None}

FirstMissing(n, T) ==
  dep_types(T.input)[CHOOSE i \in MissingDeps(n, T) :
                       \A j \in MissingDeps(n, T) : i <= j]

\* TaskInput::from_db: () needs no store; a domain type clones its own slot
\* (get_cloned, then unwrap): None stands for the unwrap's panic.
from_db(I, m) == IF I = "Unit" THEN Some(0) ELSE DbGetCloned(m, I)

\* Task::execute: the mapping of task T.
task_execute(T, x) == IF T.output = "Unit" THEN 0 ELSE (x + T.k) % (MaxVal + 1)

\* As to_db, with an Output that forgets to put itself into the store.
to_db_Forget(O, v, m) == m

\* TaskOutput::to_db: () stores nothing; a domain type puts itself under
\* its own key.
to_db(O, v, m) == IF O = "Unit" THEN m ELSE DbPut(m, O, v)

\* As ExecuteCall, also putting the task's result under the key of T's
\* Input after the task has run.
ExecuteCall_WritesInput(n, m, T) ==
  IF MissingDeps(n, T) # {}
    THEN [data |-> m, result |-> "Missing dependency", ret |-> <<>>,
          ty |-> FirstMissing(n, T)]
  ELSE LET input == from_db(T.input, m) IN
       IF input = <<>>
         THEN [data |-> m, result |-> "unwrap on None", ret |-> <<>>, ty |-> T.input]
         ELSE LET output == task_execute(T, input[1])
                  stored == to_db(T.output, output, m)
              IN  [data |-> IF T.input = "Unit" THEN stored
                            ELSE DbPut(stored, T.input, output),
                   result |-> "ok", ret |-> <<output>>, ty |-> "Unit"]

\* As ExecuteCall, returning the Output without persisting it.
ExecuteCall_NoPersist(n, m, T) ==
  IF MissingDeps(n, T) # {}
    THEN [data |-> m, result |-> "Missing dependency", ret |-> <<>>,
          ty |-> FirstMissing(n, T)]
  ELSE LET input == from_db(T.input, m) IN
       IF input = <<>>
         THEN [data |-> m, result |-> "unwrap on None", ret |-> <<>>, ty |-> T.input]
         ELSE [data |-> m, result |-> "ok",
               ret |-> <<task_execute(T, input[1])>>, ty |-> "Unit"]

\* As ExecuteCall, running the task first and checking the dependencies
\* last.
ExecuteCall_CheckLast(n, m, T) ==
  LET input == from_db(T.input, m)
      ran == IF input = <<>> THEN m
             ELSE to_db(T.output, task_execute(T, input[1]), m)
  IN  IF MissingDeps(n, T) # {}
        THEN [data |-> ran, result |-> "Missing dependency", ret |-> <<>>,
              ty |-> FirstMissing(n, T)]
      ELSE IF input = <<>>
        THEN [data |-> m, result |-> "unwrap on None", ret |-> <<>>, ty |-> T.input]
        ELSE [data |-> ran, result |-> "ok",
              ret |-> <<task_execute(T, input[1])>>, ty |-> "Unit"]

\* ExecutionGraph::execute::<T> on node list n and store m.
ExecuteCall(n, m, T) ==
  IF MissingDeps(n, T) # {}
    THEN [data |-> m, result |-> MissingDependency, ret |-> None,
          ty |-> FirstMissing(n, T)]
  ELSE LET input == from_db(T.input, m) IN
       IF input = None
         THEN [data |-> m, result |-> UnwrapNone, ret |-> None, ty |-> T.input]
         ELSE LET output == task_execute(T, input[1]) IN
              [data |-> to_db(T.output, output, m), result |-> Ok,
               ret |-> Some(output), ty |-> "Unit"]

\* ----------------------------------------------------------------- actions
Call(op, T, K, arg, ret, result, ty) ==
  [op |-> op, task |-> T, key |-> K, arg |-> arg, ret |-> ret,
   result |-> result, ty |-> ty]

\* InMemoryDb::new(): the store on its own, before any graph exists
InitDb ==
  /\ phase = "db"
  /\ data = {}
  /\ nodes = <<>>
  /\ edges = <<>>
  /\ added = <<>>
  /\ seeded = {}
  /\ counts = [puts |-> 0, inputs |-> 0, execs |-> 0]
  /\ written = [K \in TypeIds |-> None]
  /\ last = Call("new", NoTask, "Unit", 0, None, Ok, "Unit")

\* ExecutionGraphBuilder::new(InMemoryDb::new())
Init ==
  /\ phase = "building"
  /\ data = {}
  /\ nodes = <<>>
  /\ edges = <<>>
  /\ added = <<>>
  /\ seeded = {}
  /\ counts = [puts |-> 0, inputs |-> 0, execs |-> 0]
  /\ written = [K \in TypeIds |-> None]
  /\ last = Call("new", NoTask, "Unit", 0, None, Ok, "Unit")

\* db.put::<K>(v) on the store
Put(K, v) ==
  /\ phase = "db"
  /\ counts.puts < MaxPuts
  /\ data' = DbPut(data, K, v)
  /\ counts' = [counts EXCEPT !.puts = @ + 1]
  /\ written' = [written EXCEPT ![K] = Some(v)]
  /\ last' = Call("put", NoTask, K, v, DbPutRet(data, K), Ok, "Unit")
  /\ UNCHANGED <<phase, nodes, edges, added, seeded>>

\* db.get::<K>() on the store
Get(K) ==
  /\ phase = "db"
  /\ last' = Call("get", NoTask, K, 0, DbGet(data, K), Ok, "Unit")
  /\ UNCHANGED <<phase, data, nodes, edges, added, seeded, counts, written>>

\* As AddInput, also registering the seeded key as a node.
AddInput_AddsNode(K, v) ==
  /\ phase = "building"
  /\ counts.inputs < MaxInputs
  /\ data' = DbPut(data, K, v)
  /\ nodes' = Append(nodes, K)
  /\ seeded' = seeded \cup {K}
  /\ written' = [written EXCEPT ![K] = Some(v)]
  /\ counts' = [counts EXCEPT !.inputs = @ + 1]
  /\ last' = Call("add_input", NoTask, K, v, <<>>, "ok", "Unit")
  /\ UNCHANGED <<phase, edges, added>>

\* ExecutionGraphBuilder::add_input::<K>(v)
AddInput(K, v) ==
  /\ phase = "building"
  /\ counts.inputs < MaxInputs
  /\ data' = DbPut(data, K, v)
  /\ seeded' = seeded \cup {K}
  /\ written' = [written EXCEPT ![K] = Some(v)]
  /\ counts' = [counts EXCEPT !.inputs = @ + 1]
  /\ last' = Call("add_input", NoTask, K, v, None, Ok, "Unit")
  /\ UNCHANGED <<phase, nodes, edges, added>>

\* As AddTask, running the registered task at once when its Input can be
\* read from the store.
AddTask_Eager(T) ==
  /\ phase = "building"
  /\ Len(added) < MaxTasks
  /\ LET r == AddTaskCall(nodes, edges, T)
         input == from_db(T.input, data)
     IN
       /\ nodes' = r.nodes
       /\ edges' = r.edges
       /\ phase' = IF r.result = "ok" THEN "building" ELSE "aborted"
       /\ added' = IF r.result = "ok" THEN Append(added, T) ELSE added
       /\ data' = IF r.result = "ok" /\ input # <<>>
                    THEN to_db(T.output, task_execute(T, input[1]), data)
                    ELSE data
       /\ last' = Call("add_task", T, "Unit", 0, <<>>, r.result, r.ty)
  /\ UNCHANGED <<seeded, counts, written>>

\* ExecutionGraphBuilder::add_task::<T>()
AddTask(T) ==
  /\ phase = "building"
  /\ Len(added) < MaxTasks
  /\ LET r == AddTaskCall(nodes, edges, T) IN
       /\ nodes' = r.nodes
       /\ edges' = r.edges
       /\ phase' = IF r.result = Ok THEN "building" ELSE "aborted"
       /\ added' = IF r.result = Ok THEN Append(added, T) ELSE added
       /\ last' = Call("add_task", T, "Unit", 0, None, r.result, r.ty)
  /\ UNCHANGED <<data, seeded, counts, written>>

\* As Build, returning a graph with an empty topology around the store.
Build_Fresh ==
  /\ phase = "building"
  /\ phase' = "built"
  /\ nodes' = <<>>
  /\ edges' = <<>>
  /\ last' = Call("build", NoTask, "Unit", 0, <<>>, "ok", "Unit")
  /\ UNCHANGED <<data, added, seeded, counts, written>>

\* ExecutionGraphBuilder::build()
Build ==
  /\ phase = "building"
  /\ phase' = "built"
  /\ last' = Call("build", NoTask, "Unit", 0, None, Ok, "Unit")
  /\ UNCHANGED <<data, nodes, edges, added, seeded, counts, written>>

\* ExecutionGraph::execute::<T>()
Execute(T) ==
  /\ phase = "built"
  /\ counts.execs < MaxExec
  /\ LET r == ExecuteCall(nodes, data, T) IN
       /\ data' = r.data
       /\ phase' = IF r.result = Ok THEN "built" ELSE "aborted"
       /\ written' = IF r.result = Ok /\ T.output # "Unit"
                      THEN [written EXCEPT ![T.output] = r.ret]
                      ELSE written
       /\ last' = Call("execute", T, "Unit", 0, r.ret, r.result, r.ty)
  /\ counts' = [counts EXCEPT !.execs = @ + 1]
  /\ UNCHANGED <<nodes, edges, added, seeded>>

Next ==
  \/ \E K \in SeedKeys : \E v \in ValuesOf(K) : AddInput(K, v)
  \/ \E T \in Tasks : AddTask(T)
  \/ Build
  \/ \E T \in Tasks : Execute(T)

Spec == Init /\ [][Next]_vars

\* The store used directly, as the tests of InMemoryDb do.
NextDb ==
  \/ \E K \in TypeIds : \E v \in ValuesOf(K) : Put(K, v)
  \/ \E K \in TypeIds : Get(K)

SpecDb == InitDb /\ [][NextDb]_vars

\* ------------------------------------------------------------------ claims
Range(s) == {s[i] : i \in 1 .. Len(s)}

\* The Output identities of the tasks registered so far
RegisteredOutputs == {added[i].output : i \in 1 .. Len(added)}

\* The out_types identities the tasks registered so far declared
ClaimedOuts == UNION {Range(out_types(added[i].output)) : i \in 1 .. Len(added)}

\* The step is a call of add_task::<T>
IsAddTask(T) == phase = "building" /\ last'.op = "add_task" /\ last'.task = T

\* The number of nodes carrying identity ty
NodeCount(ty) == Cardinality({i \in 1 .. Len(nodes) : nodes[i] = ty})

\* C1: add_task<T> fails with the missing-dependency error whenever some
\* identity of T's Input dep_types was not added before the call, neither as
\* a seed (add_input) nor as an output (Output identity or out_types
\* identity) of a task registered by an earlier add_task call.
C1_UnaddedDependencyFails ==
  [][\A T \in Tasks :
       (IsAddTask(T) /\ \E d \in Range(dep_types(T.input)) :
                          d \notin seeded \cup RegisteredOutputs \cup ClaimedOuts)
       => last'.result = MissingDependency]_vars

\* C2: if every identity of T's Input dep_types was added before the call,
\* as a seed (add_input) or as the Output of a registered task, and no
\* identity of T's Output out_types is a node, add_task<T> does not fail
\* with the missing-dependency error.
C2_AddedDependenciesSuffice ==
  [][\A T \in Tasks :
       (/\ IsAddTask(T)
        /\ \A d \in Range(dep_types(T.input)) : d \in seeded \cup RegisteredOutputs
        /\ \A o \in Range(out_types(T.output)) : contains_node(nodes, o) = None)
       => last'.result # MissingDependency]_vars

\* C3 as stated: add_task<T> fails with the duplicate-output error whenever
\* some identity of T's Output out_types was claimed by an earlier add_task.
C3_ClaimedOutputIsDuplicateError ==
  [][\A T \in Tasks :
       (IsAddTask(T) /\ Range(out_types(T.output)) \cap ClaimedOuts # {})
       => last'.result = OutputExists]_vars

\* C3 as amended: add_task<T> fails whenever some identity of T's Output
\* out_types was claimed by an earlier add_task: with the duplicate-output
\* error when every dependency of T's Input is carried by a node (T's own
\* new Input node included), with the missing-dependency error otherwise.
C3_ClaimedOutputFails ==
  [][\A T \in Tasks :
       (IsAddTask(T) /\ Range(out_types(T.output)) \cap ClaimedOuts # {})
       => /\ last'.result \in {OutputExists, MissingDependency}
          /\ last'.result = OutputExists <=>
               \A d \in Range(dep_types(T.input)) :
                 d \in Range(nodes) \cup {T.input}]_vars

\* A second task whose Output declares the identity D that the first task's
\* Output declared was refused as a duplicate.
C3_Witness ==
  /\ last.op = "add_task"
  /\ last.result = OutputExists
  /\ last.ty = "D"
  /\ last.task.output = "E"
  /\ "C" \in RegisteredOutputs

\* C4: in every state reached by calls that all returned, every identity
\* that a registered task's Output declared in out_types is carried by at
\* most one node.
C4_ClaimedOutHasOneNode ==
  phase # "aborted" => \A d \in ClaimedOuts : NodeCount(d) <= 1

\* C5 as stated: a successful execute<T> returns T's Output value and a get
\* under the Output's key right after it yields that value, for every T.
C5_ExecuteResultIsStored ==
  (last.op = "execute" /\ last.result = Ok)
    => last.ret # None /\ DbGet(data, last.task.output) = last.ret

\* C5 as amended: the same, for every T whose Output is not (); the Output
\* (), whose to_db stores nothing, is returned but not stored by execute.
C5_ExecuteResultIsStoredUnlessUnit ==
  (last.op = "execute" /\ last.result = Ok)
    => /\ last.ret # None
       /\ last.task.output # "Unit" => DbGet(data, last.task.output) = last.ret
       /\ last.task.output = "Unit" => DbGet(data, "Unit") = written["Unit"]

\* execute of the chained task B -> C returned the mapped value 1 + 0 and
\* stored it under C.
C5_Witness ==
  /\ last.op = "execute"
  /\ last.result = Ok
  /\ last.task = [input |-> "B", output |-> "C", k |-> 1]
  /\ last.ret = Some(1)
  /\ DbGet(data, "C") = Some(1)

\* C6: execute<T> fails with the missing-dependency error exactly when some
\* identity of T's Input dep_types is carried by no node; the store and
\* whether T was registered play no part.
C6_ExecuteFailsIffDependencyNotANode ==
  last.op = "execute"
    => (last.result = MissingDependency
          <=> \E d \in Range(dep_types(last.task.input)) : d \notin Range(nodes))

\* execute of a task that was never registered, over a non-empty store,
\* failed because a dependency of its Input is no node.
C6_Witness ==
  /\ last.op = "execute"
  /\ last.task \notin Range(added)
  /\ data # {}
  /\ nodes # <<>>
  /\ last.result = MissingDependency

\* C7: once add_task<T> has succeeded, no later execute<T> fails the
\* dependency check.
C7_RegisteredTaskPassesRecheck ==
  (last.op = "execute" /\ last.task \in Range(added))
    => last.result # MissingDependency

\* A registered task whose Input declares dependencies was executed, after
\* another task was registered behind it, and passed the check.
C7_Witness ==
  /\ last.op = "execute"
  /\ Len(added) = 2
  /\ last.task = added[1]
  /\ dep_types(last.task.input) # <<>>
  /\ last.result = Ok

\* C8: a failing add_task<T> leaves the node list, the edge list and the
\* store exactly as they were before the call.
C8_FailedAddTaskChangesNothing ==
  [][\A T \in Tasks :
       (IsAddTask(T) /\ last'.result # Ok)
       => nodes' = nodes /\ edges' = edges /\ data' = data]_vars

IsPrefix(s, t) == Len(s) <= Len(t) /\ SubSeq(t, 1, Len(s)) = s

\* C9: no call removes or alters an existing node or edge; build hands over
\* exactly the builder's nodes and edges; and once built, no call changes
\* the nodes or the edges.
C9_TopologyAppendOnlyThenFrozen ==
  [][/\ IsPrefix(nodes, nodes')
     /\ IsPrefix(edges, edges')
     /\ (phase = "built" \/ phase' = "built")
          => nodes' = nodes /\ edges' = edges]_vars

\* A graph with nodes and edges was built and a task executed on it.
C9_Witness ==
  /\ phase = "built"
  /\ last.op = "execute"
  /\ last.result = Ok
  /\ Len(nodes) >= 3
  /\ Len(edges) >= 2

\* C10: put<K>(v) returns the value of the latest earlier put for K, or
\* absence if there was none; a get<K>() after it returns v; and the store
\* holds at most one entry per key.
C10_PutThenGet ==
  [][last'.op = "put"
     => /\ last'.ret = written[last'.key]
        /\ DbGet(data', last'.key) = Some(last'.arg)
        /\ \A K \in TypeIds : Cardinality({e \in data' : e.key = K}) <= 1]_vars

\* A put replaced a different value under the same key and returned it.
C10_Witness ==
  /\ last.op = "put"
  /\ last.ret # None
  /\ last.ret # Some(last.arg)
  /\ Cardinality(data) = 1

\* C11: a put under one key leaves the result of get under every other
\* key as it was, also when the two keys store the same value type, and a
\* get changes no slot.
C11_KeysDoNotInteract ==
  [][/\ last'.op = "put"
          => \A K2 \in TypeIds \ {last'.key} : DbGet(data', K2) = DbGet(data, K2)
     /\ last'.op = "get" => data' = data]_vars

\* A put under MyKey2 was made while MyKey, which stores the same value
\* type, holds a different value.
C11_Witness ==
  /\ last.op = "put"
  /\ last.key = "MyKey2"
  /\ DbGet(data, "MyKey") # None
  /\ DbGet(data, "MyKey") # Some(last.arg)

\* C12: add_input<K>(v) leaves v under K's key, whatever was seeded there
\* before, and changes neither the nodes nor the edges, so it makes K's
\* identity no node.
C12_AddInputWritesStoreOnly ==
  [][last'.op = "add_input"
     => /\ DbGet(data', last'.key) = Some(last'.arg)
        /\ nodes' = nodes
        /\ edges' = edges
        /\ contains_node(nodes', last'.key) = contains_node(nodes, last'.key)]_vars

\* A second add_input for the same key replaced the first seed, in a
\* builder that holds a task already, and the key is no node.
C12_Witness ==
  /\ last.op = "add_input"
  /\ counts.inputs = 2
  /\ Cardinality(data) = 1
  /\ nodes # <<>>
  /\ contains_node(nodes, last.key) = None

\* C13: every box in the store has the value type of its key, so get<K>()
\* is absent exactly when no put was ever made for K (and returns the
\* latest value put otherwise), and put<K> returns absence exactly on the
\* first put for K.
C13_NoKeyTypeMismatch ==
  /\ [](/\ \A e \in data :
             \E K \in TypeIds : e.key = TypeIdOf(K) /\ e.box.ty = ValueType(K)
        /\ \A K \in TypeIds : DbGet(data, K) = written[K])
  /\ [][last'.op = "put"
          => (last'.ret = None <=> written[last'.key] = None)]_vars

\* The handle key MyKey, whose value type differs from the key, was
\* written and read back.
C13_Witness ==
  /\ last.op = "get"
  /\ last.key = "MyKey"
  /\ last.ret # None
  /\ written["MyKey"] = last.ret

IsExecute(T) == phase = "built" /\ last'.op = "execute" /\ last'.task = T

\* C15: a successful execute<T> changes no slot but the one T's Output
\* writes in to_db: every other key keeps its entry, and nothing changes at
\* all when the Output is ().
C15_ExecuteWritesOutputSlotOnly ==
  [][\A T \in Tasks :
       (IsExecute(T) /\ last'.result = Ok)
       => /\ \A K \in TypeIds \ {T.output} :
               HashMapGet(data', TypeIdOf(K)) = HashMapGet(data, TypeIdOf(K))
          /\ T.output = "Unit" => data' = data]_vars

\* B -> C was executed on a graph that has dependency edges, with A and B
\* in the store: C was written, A and B are still there.
C15_Witness ==
  /\ last.op = "execute"
  /\ last.result = Ok
  /\ last.task = [input |-> "B", output |-> "C", k |-> 1]
  /\ \E i \in 1 .. Len(edges) : edges[i].action.kind = "reload"
  /\ DbGet(data, "A") # None
  /\ DbGet(data, "B") = written["B"]
  /\ DbGet(data, "B") # DbGet(data, "C")

\* C16: a successful execute<T> leaves under T's Output key the mapping of
\* T applied to the value most recently written under T's Input key, by
\* add_input or by an earlier execute, and returns it; so after the seed a
\* under A, execute of T1: A -> B and then of T2: B -> C leave under C the
\* mapping of T2 applied to the mapping of T1 applied to a.
C16_ExecuteMapsCurrentInput ==
  /\ [][\A T \in Tasks :
          (IsExecute(T) /\ last'.result = Ok /\ T.input # "Unit" /\ T.output # "Unit")
          => /\ written[T.input] # None
             /\ DbGet(data', T.output) = Some(task_execute(T, written[T.input][1]))
             /\ last'.ret = DbGet(data', T.output)]_vars
  /\ [][LET T1 == [input |-> "A", output |-> "B", k |-> 0]
            T2 == [input |-> "B", output |-> "C", k |-> 1]
        IN  (/\ last.op = "execute" /\ last.task = T1 /\ last.result = Ok
             /\ IsExecute(T2) /\ last'.result = Ok
             /\ written["A"] # None)
            => DbGet(data', "C")
                 = Some(task_execute(T2, task_execute(T1, written["A"][1])))]_vars

\* With only the seed 0 under A, T1: A -> B and then T2: B -> C were
\* executed: C holds 1, the offset of T2 added to the seed.
C16_Witness ==
  /\ seeded = {"A"}
  /\ written["A"] = Some(0)
  /\ counts.execs = 2
  /\ last.op = "execute"
  /\ last.result = Ok
  /\ last.task = [input |-> "B", output |-> "C", k |-> 1]
  /\ DbGet(data, "B") = Some(0)
  /\ DbGet(data, "C") = Some(1)

\* C17: add_task<T>, whether it returns or panics, leaves every slot of
\* the store as it was: no put is made, so neither from_db's result nor the
\* mapping's nor to_db's reaches the store.
C17_AddTaskLeavesStore ==
  [][\A T \in Tasks :
       IsAddTask(T)
       => /\ data' = data
          /\ written' = written
          /\ \A K \in TypeIds : DbGet(data', K) = DbGet(data, K)]_vars

\* add_task failed on a missing dependency whose key is in the store; the
\* store still holds the two seeds.
C17_Witness ==
  /\ last.op = "add_task"
  /\ last.result = MissingDependency
  /\ DbGet(data, last.ty) # None
  /\ Cardinality(data) = 2

\* C18: an execute<T> that fails the dependency check returns nothing and
\* leaves the store, the nodes and the edges as they were before the call.
C18_FailedRecheckChangesNothing ==
  [][\A T \in Tasks :
       (IsExecute(T) /\ last'.result = MissingDependency)
       => /\ data' = data
          /\ written' = written
          /\ nodes' = nodes
          /\ edges' = edges
          /\ last'.ret = None]_vars

\* execute of C -> C failed the check for A although C's slot holds a
\* value the task could have run on.
C18_Witness ==
  /\ last.op = "execute"
  /\ last.result = MissingDependency
  /\ last.ty = "A"
  /\ last.task = [input |-> "C", output |-> "C", k |-> 1]
  /\ from_db("C", data) # None

\* T's Output out_types names T's own Input or Output identity, or names
\* an identity twice.
SelfConflicting(T) ==
  LET outs == out_types(T.output) IN
    \/ T.input \in Range(outs)
    \/ T.output \in Range(outs)
    \/ \E i, j \in 1 .. Len(outs) : i # j /\ outs[i] = outs[j]

\* C19 as stated: add_task<T> fails with the duplicate-output error whenever
\* T's out_types names T's own Input or Output identity or names an
\* identity twice.
C19_SelfConflictIsDuplicateError ==
  [][\A T \in Tasks :
       (IsAddTask(T) /\ SelfConflicting(T)) => last'.result = OutputExists]_vars

\* C19 as amended: such an add_task<T> always fails: with the
\* duplicate-output error when every dependency of T's Input is carried by
\* a node (T's own new Input node included), with the missing-dependency
\* error otherwise.
C19_SelfConflictFails ==
  [][\A T \in Tasks :
       (IsAddTask(T) /\ SelfConflicting(T))
       => /\ last'.result \in {OutputExists, MissingDependency}
          /\ last'.result = OutputExists <=>
               \A d \in Range(dep_types(T.input)) :
                 d \in Range(nodes) \cup {T.input}]_vars

\* On the empty graph, add_task of A -> E was refused at the second D of
\* E's out_types, after the first D had been added as a node.
C19_Witness ==
  /\ last.op = "add_task"
  /\ last.task = [input |-> "A", output |-> "E", k |-> 1]
  /\ last.result = OutputExists
  /\ last.ty = "D"
  /\ nodes = <<"A", "E", "D">>

====
